---- MODULE Spec2Model ----
(***************************************************************************)
(* Model of src/wallet/crypter.cpp: the symmetric cipher CCrypter and the  *)
(* encrypted key store CCryptoKeyStore (plain -> encrypted, locked <->     *)
(* unlocked), with transparent keys and shielded spending keys.            *)
(*                                                                         *)
(* Byte strings are modelled by small integers:                            *)
(*   master keys   0 (empty), 1 and 2 (32 bytes), 3 (16 bytes)             *)
(*   CKey secrets  1..NumKeys, CPubKey = secret + 100,                     *)
(*                 CKeyID = pubkey + 100, pubkey hash = pubkey + 200       *)
(*   SpendingKey   501.., PaymentAddress = sk + 100,                       *)
(*                 address hash = address + 200, ViewingKey = sk + 50      *)
(* A ciphertext of the authenticated cipher is the record of the key, the  *)
(* nonce and the plaintext it was made from: it opens only under the same  *)
(* key and nonce.                                                          *)
(***************************************************************************)
EXTENDS Integers, Sequences, FiniteSets, TLC

\* ------------------------------------------------------------------ bounds
NumKeys == 2
NumSpendingKeys == 2

\* ------------------------------------------------------- program constants
WALLET_CRYPTO_KEY_SIZE == 32
SerializedSpendingKeySize == 32
CKeySize == 32
WALLET_CRYPTO_SALT_SIZE == 8

\* ------------------------------------------------------------------ values
EmptyKeyingMaterial == 0
\* master keys of WALLET_CRYPTO_KEY_SIZE bytes, and one of another size
MasterKeys == {1, 2}
WrongSizeKeys == {3}
MasterKeyInputs == MasterKeys \cup WrongSizeKeys

\* nonces: the hash of an identity is 32 bytes; a nonce of another size
WrongSizeIVs == {9}
IVSize(chNewIV) ==
    IF chNewIV \in WrongSizeIVs THEN WALLET_CRYPTO_KEY_SIZE \div 2 ELSE WALLET_CRYPTO_KEY_SIZE

KeyingMaterialSize(k) ==
    IF k = EmptyKeyingMaterial THEN 0
    ELSE IF k \in MasterKeys THEN WALLET_CRYPTO_KEY_SIZE ELSE WALLET_CRYPTO_KEY_SIZE \div 2

CKeys == 1..NumKeys
CKey_GetPubKey(key) == key + 100
CPubKey_GetID(pubkey) == pubkey + 100
CPubKey_GetHash(pubkey) == pubkey + 200
CKey_VerifyPubKey(key, pubkey) == CKey_GetPubKey(key) = pubkey
CPubKeys == {CKey_GetPubKey(k) : k \in CKeys}

SpendingKeys == {500 + j : j \in 1..NumSpendingKeys}
SpendingKey_address(sk) == sk + 100
SpendingKey_viewing_key(sk) == sk + 50
PaymentAddress_GetHash(address) == address + 200
PaymentAddresses == {SpendingKey_address(sk) : sk \in SpendingKeys}
\* ss << sk and ss >> sk: the serialized form of a spending key
SerializeSpendingKey(sk) == sk + 1000
DeserializeSpendingKey(bytes) == bytes - 1000

\* size in bytes of a secret payload
SecretSize(vchSecret) == IF vchSecret > 1000 THEN SerializedSpendingKeySize ELSE CKeySize

\* --------------------------------------------------------------- the state
VARIABLES
    fUseCrypto,                     \* store mode flag
    vMasterKey,                     \* master key held (0: none)
    fDecryptionThoroughlyChecked,   \* an Unlock has succeeded before
    mapKeys,                        \* CKeyID -> CKey (plaintext)
    mapSpendingKeys,                \* PaymentAddress -> SpendingKey (plaintext)
    mapCryptedKeys,                 \* CKeyID -> [pub, ct]
    mapCryptedSpendingKeys,         \* PaymentAddress -> ct
    mapNoteDecryptors,              \* PaymentAddress -> ViewingKey
    aborted,                        \* assert(false) has ended the process
    op,                             \* the last call: name, arguments, result
    pre,                            \* the store as it was when that call began
    pc,                             \* per thread: where it is in its call
    call,                           \* per thread: arguments and locals of its call
    cs_KeyStore,                    \* the thread holding cs_KeyStore (0: free)
    cs_SpendingKeyStore,            \* the thread holding cs_SpendingKeyStore (0: free)
    crypter,                        \* a CCrypter: fKeySet, chKey, chIV
    cop,                            \* the last call on the CCrypter: name, arguments, result
    cpre,                           \* the CCrypter as it was when that call began
    fEverKeySet                     \* a SetKey or SetKeyFromPassphrase has returned true

store == <<fUseCrypto, vMasterKey, fDecryptionThoroughlyChecked, mapKeys,
           mapSpendingKeys, mapCryptedKeys, mapCryptedSpendingKeys, mapNoteDecryptors>>
vars == <<fUseCrypto, vMasterKey, fDecryptionThoroughlyChecked, mapKeys,
          mapSpendingKeys, mapCryptedKeys, mapCryptedSpendingKeys, mapNoteDecryptors,
          aborted, op, pre, pc, call, cs_KeyStore, cs_SpendingKeyStore,
          crypter, cop, cpre, fEverKeySet>>
\* the variables of the threads of SpecConc
conc == <<pc, call, cs_KeyStore, cs_SpendingKeyStore>>
\* the variables that record the calls made one at a time
seq == <<op, pre>>
\* the variables of the CCrypter of SpecCrypter
cipher == <<crypter, cop, cpre, fEverKeySet>>

Snapshot ==
    [fUseCrypto |-> fUseCrypto, vMasterKey |-> vMasterKey,
     fDecryptionThoroughlyChecked |-> fDecryptionThoroughlyChecked,
     mapKeys |-> mapKeys, mapSpendingKeys |-> mapSpendingKeys,
     mapCryptedKeys |-> mapCryptedKeys,
     mapCryptedSpendingKeys |-> mapCryptedSpendingKeys,
     mapNoteDecryptors |-> mapNoteDecryptors]

\* the threads that call into the store, and a thread's locals when it is idle
Threads == {1, 2}
NoCall == [k |-> 0, sk |-> 0, ct |-> 0, keyPass |-> FALSE, keyFail |-> FALSE]

\* ---------------------------------------------------------------- std::map
EmptyMap == [x \in {} |-> 0]
MapPut(m, k, v) == [x \in DOMAIN m \cup {k} |-> IF x = k THEN v ELSE m[x]]
MapInsert(m, k, v) == IF k \in DOMAIN m THEN m ELSE MapPut(m, k, v)

Min(S) == CHOOSE x \in S : \A y \in S : x <= y
RECURSIVE MapOrder(_)
\* the keys of a std::map in iteration order
MapOrder(S) == IF S = {} THEN << >> ELSE <<Min(S)>> \o MapOrder(S \ {Min(S)})

\* ----------------------------------------------------------------- CCrypter
NewCrypter == [fKeySet |-> FALSE, chKey |-> 0, chIV |-> 0]

\* mutant: the size of the nonce is not tested
CCrypter_SetKeyAnyIV(c, chNewKey, chNewIV) ==
    IF KeyingMaterialSize(chNewKey) # WALLET_CRYPTO_KEY_SIZE
    THEN [ok |-> FALSE, c |-> c]
    ELSE [ok |-> TRUE, c |-> [fKeySet |-> TRUE, chKey |-> chNewKey, chIV |-> chNewIV]]

CCrypter_SetKey(c, chNewKey, chNewIV) ==
    IF \/ KeyingMaterialSize(chNewKey) # WALLET_CRYPTO_KEY_SIZE
       \/ IVSize(chNewIV) # WALLET_CRYPTO_KEY_SIZE
    THEN [ok |-> FALSE, c |-> c]
    ELSE [ok |-> TRUE, c |-> [fKeySet |-> TRUE, chKey |-> chNewKey, chIV |-> chNewIV]]

CCrypter_Encrypt(c, vchPlaintext) ==
    IF ~c.fKeySet
    THEN [ok |-> FALSE, ct |-> 0]
    ELSE [ok |-> TRUE, ct |-> [key |-> c.chKey, iv |-> c.chIV, pt |-> vchPlaintext]]

\* mutant: the tag is not verified, any key opens any ciphertext
CCrypter_DecryptNoAuth(c, vchCiphertext) ==
    IF ~c.fKeySet
    THEN [ok |-> FALSE, pt |-> 0]
    ELSE [ok |-> TRUE, pt |-> vchCiphertext.pt]

CCrypter_Decrypt(c, vchCiphertext) ==
    IF ~c.fKeySet
    THEN [ok |-> FALSE, pt |-> 0]
    ELSE IF vchCiphertext.key = c.chKey /\ vchCiphertext.iv = c.chIV
         THEN [ok |-> TRUE, pt |-> vchCiphertext.pt]
         ELSE [ok |-> FALSE, pt |-> 0]

\* mutant: the nonce is left zeroed instead of copied from the identity hash
EncryptSecretZeroIV(mk, vchPlaintext, nIV) ==
    LET r == CCrypter_SetKey(NewCrypter, mk, 0)
    IN  IF ~r.ok THEN [ok |-> FALSE, ct |-> 0] ELSE CCrypter_Encrypt(r.c, vchPlaintext)

EncryptSecret(mk, vchPlaintext, nIV) ==
    LET r == CCrypter_SetKey(NewCrypter, mk, nIV)
    IN  IF ~r.ok THEN [ok |-> FALSE, ct |-> 0] ELSE CCrypter_Encrypt(r.c, vchPlaintext)

DecryptSecret(mk, vchCiphertext, nIV) ==
    LET r == CCrypter_SetKey(NewCrypter, mk, nIV)
    IN  IF ~r.ok THEN [ok |-> FALSE, pt |-> 0] ELSE CCrypter_Decrypt(r.c, vchCiphertext)

DecryptKey(mk, vchCryptedSecret, vchPubKey) ==
    LET r == DecryptSecret(mk, vchCryptedSecret, CPubKey_GetHash(vchPubKey))
    IN  IF ~r.ok THEN [ok |-> FALSE, key |-> 0]
        ELSE IF SecretSize(r.pt) # CKeySize THEN [ok |-> FALSE, key |-> 0]
        ELSE [ok |-> CKey_VerifyPubKey(r.pt, vchPubKey), key |-> r.pt]

DecryptSpendingKey(mk, vchCryptedSecret, address) ==
    LET r == DecryptSecret(mk, vchCryptedSecret, PaymentAddress_GetHash(address))
    IN  IF ~r.ok THEN [ok |-> FALSE, sk |-> 0]
        ELSE IF SecretSize(r.pt) # SerializedSpendingKeySize THEN [ok |-> FALSE, sk |-> 0]
        ELSE LET sk == DeserializeSpendingKey(r.pt)
             IN  [ok |-> SpendingKey_address(sk) = address, sk |-> sk]


\* ------------------------------------------------------- observed results
\* what a call did: its name, argument, return value ("true", "false" or
\* "abort"), output value, the records Unlock tried to decrypt, and whether
\* it called NotifyStatusChanged
OpRec(name, arg, ret, out, tried, notified) ==
    [name |-> name, arg |-> arg, ret |-> ret, out |-> out, tried |-> tried,
     notified |-> notified]

Bool(b) == IF b THEN "true" ELSE "false"

\* ---------------------------------------------------------- CCryptoKeyStore
IsCrypted(fUse) == fUse

IsLocked(fUse, mk) ==
    IF ~IsCrypted(fUse) THEN FALSE ELSE mk = EmptyKeyingMaterial

\* mutant: the plaintext maps are not tested
DoSetCryptedNoCheck(fUse, mK, mSK) == [ok |-> TRUE, fUseCrypto |-> TRUE]

\* SetCrypted(): the return value and the mode flag it leaves
DoSetCrypted(fUse, mK, mSK) ==
    IF fUse THEN [ok |-> TRUE, fUseCrypto |-> TRUE]
    ELSE IF ~(DOMAIN mK = {} /\ DOMAIN mSK = {}) THEN [ok |-> FALSE, fUseCrypto |-> FALSE]
    ELSE [ok |-> TRUE, fUseCrypto |-> TRUE]

SetCrypted ==
    /\ ~aborted
    /\ LET r == DoSetCrypted(fUseCrypto, mapKeys, mapSpendingKeys)
       IN  /\ fUseCrypto' = r.fUseCrypto
           /\ op' = OpRec("SetCrypted", 0, Bool(r.ok), 0, {}, FALSE)
    /\ pre' = Snapshot
    /\ UNCHANGED <<conc, cipher>>
    /\ UNCHANGED <<vMasterKey, fDecryptionThoroughlyChecked, mapKeys, mapSpendingKeys,
                   mapCryptedKeys, mapCryptedSpendingKeys, mapNoteDecryptors, aborted>>

\* mutant: the master key is not cleared
LockKeepsKey ==
    /\ ~aborted
    /\ LET r == DoSetCrypted(fUseCrypto, mapKeys, mapSpendingKeys)
       IN  /\ fUseCrypto' = r.fUseCrypto
           /\ op' = OpRec("Lock", 0, Bool(r.ok), 0, {}, r.ok)
    /\ pre' = Snapshot
    /\ UNCHANGED <<conc, cipher>>
    /\ UNCHANGED <<vMasterKey, fDecryptionThoroughlyChecked, mapKeys, mapSpendingKeys,
                   mapCryptedKeys, mapCryptedSpendingKeys, mapNoteDecryptors, aborted>>

Lock ==
    /\ ~aborted
    /\ LET r == DoSetCrypted(fUseCrypto, mapKeys, mapSpendingKeys)
       IN  /\ fUseCrypto' = r.fUseCrypto
           /\ IF ~r.ok
              THEN /\ vMasterKey' = vMasterKey
                   /\ op' = OpRec("Lock", 0, "false", 0, {}, FALSE)
              ELSE /\ vMasterKey' = EmptyKeyingMaterial
                   /\ op' = OpRec("Lock", 0, "true", 0, {}, TRUE)
    /\ pre' = Snapshot
    /\ UNCHANGED <<conc, cipher>>
    /\ UNCHANGED <<fDecryptionThoroughlyChecked, mapKeys, mapSpendingKeys,
                   mapCryptedKeys, mapCryptedSpendingKeys, mapNoteDecryptors, aborted>>

\* mutant: the loops stop after a success until an Unlock has succeeded
UnlockBreakUntilChecked(thoroughlyChecked) == ~thoroughlyChecked

\* the loops of Unlock stop after a successful decryption when this holds
UnlockBreakAfterPass(thoroughlyChecked) == thoroughlyChecked

RECURSIVE UnlockScanKeys(_, _, _, _, _)
\* the loop over mapCryptedKeys
UnlockScanKeys(ids, mCK, vMasterKeyIn, thoroughlyChecked, acc) ==
    IF ids = << >> THEN acc
    ELSE LET mi == Head(ids)
             acc1 == [acc EXCEPT !.tried = @ \cup {mi}]
         IN  IF ~DecryptKey(vMasterKeyIn, mCK[mi].ct, mCK[mi].pub).ok
             THEN [acc1 EXCEPT !.keyFail = TRUE]
             ELSE IF UnlockBreakAfterPass(thoroughlyChecked)
                  THEN [acc1 EXCEPT !.keyPass = TRUE]
                  ELSE UnlockScanKeys(Tail(ids), mCK, vMasterKeyIn, thoroughlyChecked,
                                      [acc1 EXCEPT !.keyPass = TRUE])

RECURSIVE UnlockScanSpendingKeys(_, _, _, _, _)
\* the loop over mapCryptedSpendingKeys
UnlockScanSpendingKeys(addrs, mCSK, vMasterKeyIn, thoroughlyChecked, acc) ==
    IF addrs = << >> THEN acc
    ELSE LET skmi == Head(addrs)
             acc1 == [acc EXCEPT !.tried = @ \cup {skmi}]
         IN  IF ~DecryptSpendingKey(vMasterKeyIn, mCSK[skmi], skmi).ok
             THEN [acc1 EXCEPT !.keyFail = TRUE]
             ELSE IF UnlockBreakAfterPass(thoroughlyChecked)
                  THEN [acc1 EXCEPT !.keyPass = TRUE]
                  ELSE UnlockScanSpendingKeys(Tail(addrs), mCSK, vMasterKeyIn,
                                              thoroughlyChecked,
                                              [acc1 EXCEPT !.keyPass = TRUE])

\* keyPass, keyFail and the records tried after both loops of Unlock
UnlockScan(mCK, mCSK, vMasterKeyIn, thoroughlyChecked) ==
    UnlockScanSpendingKeys(
        MapOrder(DOMAIN mCSK), mCSK, vMasterKeyIn, thoroughlyChecked,
        UnlockScanKeys(MapOrder(DOMAIN mCK), mCK, vMasterKeyIn, thoroughlyChecked,
                       [keyPass |-> FALSE, keyFail |-> FALSE, tried |-> {}]))

\* mutant: a store with no record accepts any key
UnlockDecisionNoPassNeeded(keyPass, keyFail) ==
    IF keyPass /\ keyFail THEN "abort"
    ELSE IF keyFail THEN "false"
    ELSE "true"

\* what Unlock decides from keyPass and keyFail
UnlockDecision(keyPass, keyFail) ==
    IF keyPass /\ keyFail THEN "abort"
    ELSE IF keyFail \/ ~keyPass THEN "false"
    ELSE "true"

\* mutant: the key is adopted before the records are evaluated
UnlockAdoptsKeyFirst(vMasterKeyIn) ==
    /\ ~aborted
    /\ LET r == DoSetCrypted(fUseCrypto, mapKeys, mapSpendingKeys)
           s == UnlockScan(mapCryptedKeys, mapCryptedSpendingKeys, vMasterKeyIn,
                           fDecryptionThoroughlyChecked)
           d == UnlockDecision(s.keyPass, s.keyFail)
       IN  /\ fUseCrypto' = r.fUseCrypto
           /\ IF ~r.ok
              THEN /\ op' = OpRec("Unlock", vMasterKeyIn, "false", 0, {}, FALSE)
                   /\ UNCHANGED <<vMasterKey, fDecryptionThoroughlyChecked, aborted>>
              ELSE /\ op' = OpRec("Unlock", vMasterKeyIn, d, 0, s.tried, d = "true")
                   /\ aborted' = (d = "abort")
                   /\ vMasterKey' = vMasterKeyIn
                   /\ fDecryptionThoroughlyChecked' =
                          IF d = "true" THEN TRUE ELSE fDecryptionThoroughlyChecked
    /\ pre' = Snapshot
    /\ UNCHANGED <<conc, cipher>>
    /\ UNCHANGED <<mapKeys, mapSpendingKeys, mapCryptedKeys, mapCryptedSpendingKeys,
                   mapNoteDecryptors>>

Unlock(vMasterKeyIn) ==
    /\ ~aborted
    /\ LET r == DoSetCrypted(fUseCrypto, mapKeys, mapSpendingKeys)
           s == UnlockScan(mapCryptedKeys, mapCryptedSpendingKeys, vMasterKeyIn,
                           fDecryptionThoroughlyChecked)
           d == UnlockDecision(s.keyPass, s.keyFail)
       IN  /\ fUseCrypto' = r.fUseCrypto
           /\ IF ~r.ok
              THEN /\ op' = OpRec("Unlock", vMasterKeyIn, "false", 0, {}, FALSE)
                   /\ UNCHANGED <<vMasterKey, fDecryptionThoroughlyChecked, aborted>>
              ELSE /\ op' = OpRec("Unlock", vMasterKeyIn, d, 0, s.tried, d = "true")
                   /\ aborted' = (d = "abort")
                   /\ vMasterKey' = IF d = "true" THEN vMasterKeyIn ELSE vMasterKey
                   /\ fDecryptionThoroughlyChecked' =
                          IF d = "true" THEN TRUE ELSE fDecryptionThoroughlyChecked
    /\ pre' = Snapshot
    /\ UNCHANGED <<conc, cipher>>
    /\ UNCHANGED <<mapKeys, mapSpendingKeys, mapCryptedKeys, mapCryptedSpendingKeys,
                   mapNoteDecryptors>>

\* mutant: a record already stored for the identity is kept
DoAddCryptedKeyNoOverwrite(fUse, mK, mSK, mCK, vchPubKey, vchCryptedSecret) ==
    LET r == DoSetCrypted(fUse, mK, mSK)
    IN  IF ~r.ok THEN [ok |-> FALSE, fUseCrypto |-> r.fUseCrypto, mapCryptedKeys |-> mCK]
        ELSE [ok |-> TRUE, fUseCrypto |-> r.fUseCrypto,
              mapCryptedKeys |-> MapInsert(mCK, CPubKey_GetID(vchPubKey),
                                           [pub |-> vchPubKey, ct |-> vchCryptedSecret])]

\* AddCryptedKey(): the return value, the mode flag and mapCryptedKeys it leaves
DoAddCryptedKey(fUse, mK, mSK, mCK, vchPubKey, vchCryptedSecret) ==
    LET r == DoSetCrypted(fUse, mK, mSK)
    IN  IF ~r.ok THEN [ok |-> FALSE, fUseCrypto |-> r.fUseCrypto, mapCryptedKeys |-> mCK]
        ELSE [ok |-> TRUE, fUseCrypto |-> r.fUseCrypto,
              mapCryptedKeys |-> MapPut(mCK, CPubKey_GetID(vchPubKey),
                                        [pub |-> vchPubKey, ct |-> vchCryptedSecret])]

AddCryptedKey(vchPubKey, vchCryptedSecret) ==
    /\ ~aborted
    /\ LET r == DoAddCryptedKey(fUseCrypto, mapKeys, mapSpendingKeys, mapCryptedKeys,
                                vchPubKey, vchCryptedSecret)
       IN  /\ fUseCrypto' = r.fUseCrypto
           /\ mapCryptedKeys' = r.mapCryptedKeys
           /\ op' = OpRec("AddCryptedKey", CPubKey_GetID(vchPubKey), Bool(r.ok),
                          vchCryptedSecret, {}, FALSE)
    /\ pre' = Snapshot
    /\ UNCHANGED <<conc, cipher>>
    /\ UNCHANGED <<vMasterKey, fDecryptionThoroughlyChecked, mapKeys, mapSpendingKeys,
                   mapCryptedSpendingKeys, mapNoteDecryptors, aborted>>

\* CBasicKeyStore::AddKeyPubKey
CBasicKeyStore_AddKeyPubKey(mK, key, pubkey) == MapPut(mK, CPubKey_GetID(pubkey), key)

AddKeyPubKey(key, pubkey) ==
    /\ ~aborted
    /\ IF ~IsCrypted(fUseCrypto)
       THEN /\ mapKeys' = CBasicKeyStore_AddKeyPubKey(mapKeys, key, pubkey)
            /\ op' = OpRec("AddKeyPubKey", CPubKey_GetID(pubkey), "true", 0, {}, FALSE)
            /\ UNCHANGED <<fUseCrypto, mapCryptedKeys>>
       ELSE IF IsLocked(fUseCrypto, vMasterKey)
       THEN /\ op' = OpRec("AddKeyPubKey", CPubKey_GetID(pubkey), "false", 0, {}, FALSE)
            /\ UNCHANGED <<fUseCrypto, mapKeys, mapCryptedKeys>>
       ELSE LET e == EncryptSecret(vMasterKey, key, CPubKey_GetHash(pubkey))
                r == DoAddCryptedKey(fUseCrypto, mapKeys, mapSpendingKeys, mapCryptedKeys,
                                     pubkey, e.ct)
            IN  IF ~e.ok
                THEN /\ op' = OpRec("AddKeyPubKey", CPubKey_GetID(pubkey), "false", 0, {}, FALSE)
                     /\ UNCHANGED <<fUseCrypto, mapKeys, mapCryptedKeys>>
                ELSE /\ fUseCrypto' = r.fUseCrypto
                     /\ mapCryptedKeys' = r.mapCryptedKeys
                     /\ op' = OpRec("AddKeyPubKey", CPubKey_GetID(pubkey), Bool(r.ok), 0,
                                    {}, FALSE)
                     /\ UNCHANGED mapKeys
    /\ pre' = Snapshot
    /\ UNCHANGED <<conc, cipher>>
    /\ UNCHANGED <<vMasterKey, fDecryptionThoroughlyChecked, mapSpendingKeys,
                   mapCryptedSpendingKeys, mapNoteDecryptors, aborted>>

\* GetKey(): the return value and keyOut
DoGetKey(fUse, mk, mK, mCK, address) ==
    IF ~IsCrypted(fUse)
    THEN IF address \in DOMAIN mK THEN [ok |-> TRUE, key |-> mK[address]]
         ELSE [ok |-> FALSE, key |-> 0]
    ELSE IF address \in DOMAIN mCK
         THEN DecryptKey(mk, mCK[address].ct, mCK[address].pub)
         ELSE [ok |-> FALSE, key |-> 0]

GetKey(address) ==
    /\ ~aborted
    /\ LET r == DoGetKey(fUseCrypto, vMasterKey, mapKeys, mapCryptedKeys, address)
       IN  op' = OpRec("GetKey", address, Bool(r.ok), IF r.ok THEN r.key ELSE 0, {}, FALSE)
    /\ pre' = Snapshot
    /\ UNCHANGED <<conc, cipher>>
    /\ UNCHANGED <<store, aborted>>

\* mutant: only the plaintext map is looked up
DoGetPubKeyPlainOnly(fUse, mK, mCK, address) ==
    IF address \in DOMAIN mK
    THEN [ok |-> TRUE, pub |-> CKey_GetPubKey(mK[address])]
    ELSE [ok |-> FALSE, pub |-> 0]

\* GetPubKey(): the return value and vchPubKeyOut
DoGetPubKey(fUse, mK, mCK, address) ==
    IF ~IsCrypted(fUse)
    THEN IF address \in DOMAIN mK
         THEN [ok |-> TRUE, pub |-> CKey_GetPubKey(mK[address])]
         ELSE [ok |-> FALSE, pub |-> 0]
    ELSE IF address \in DOMAIN mCK
         THEN [ok |-> TRUE, pub |-> mCK[address].pub]
         ELSE [ok |-> FALSE, pub |-> 0]

GetPubKey(address) ==
    /\ ~aborted
    /\ LET r == DoGetPubKey(fUseCrypto, mapKeys, mapCryptedKeys, address)
       IN  op' = OpRec("GetPubKey", address, Bool(r.ok), r.pub, {}, FALSE)
    /\ pre' = Snapshot
    /\ UNCHANGED <<conc, cipher>>
    /\ UNCHANGED <<store, aborted>>

\* AddCryptedSpendingKey(): the return value, the mode flag and the maps it leaves
DoAddCryptedSpendingKey(fUse, mK, mSK, mCSK, mND, address, vk, vchCryptedSecret) ==
    LET r == DoSetCrypted(fUse, mK, mSK)
    IN  IF ~r.ok
        THEN [ok |-> FALSE, fUseCrypto |-> r.fUseCrypto,
              mapCryptedSpendingKeys |-> mCSK, mapNoteDecryptors |-> mND]
        ELSE [ok |-> TRUE, fUseCrypto |-> r.fUseCrypto,
              mapCryptedSpendingKeys |-> MapPut(mCSK, address, vchCryptedSecret),
              mapNoteDecryptors |-> MapInsert(mND, address, vk)]

AddCryptedSpendingKey(address, vk, vchCryptedSecret) ==
    /\ ~aborted
    /\ LET r == DoAddCryptedSpendingKey(fUseCrypto, mapKeys, mapSpendingKeys,
                                        mapCryptedSpendingKeys, mapNoteDecryptors,
                                        address, vk, vchCryptedSecret)
       IN  /\ fUseCrypto' = r.fUseCrypto
           /\ mapCryptedSpendingKeys' = r.mapCryptedSpendingKeys
           /\ mapNoteDecryptors' = r.mapNoteDecryptors
           /\ op' = OpRec("AddCryptedSpendingKey", address, Bool(r.ok), vchCryptedSecret,
                          {}, FALSE)
    /\ pre' = Snapshot
    /\ UNCHANGED <<conc, cipher>>
    /\ UNCHANGED <<vMasterKey, fDecryptionThoroughlyChecked, mapKeys, mapSpendingKeys,
                   mapCryptedKeys, aborted>>

\* CBasicKeyStore::AddSpendingKey
CBasicKeyStore_AddSpendingKey(mSK, mND, sk) ==
    [mapSpendingKeys |-> MapPut(mSK, SpendingKey_address(sk), sk),
     mapNoteDecryptors |-> MapInsert(mND, SpendingKey_address(sk),
                                     SpendingKey_viewing_key(sk))]

AddSpendingKey(sk) ==
    /\ ~aborted
    /\ LET address == SpendingKey_address(sk)
       IN  IF ~IsCrypted(fUseCrypto)
           THEN LET b == CBasicKeyStore_AddSpendingKey(mapSpendingKeys, mapNoteDecryptors, sk)
                IN  /\ mapSpendingKeys' = b.mapSpendingKeys
                    /\ mapNoteDecryptors' = b.mapNoteDecryptors
                    /\ op' = OpRec("AddSpendingKey", address, "true", 0, {}, FALSE)
                    /\ UNCHANGED <<fUseCrypto, mapCryptedSpendingKeys>>
           ELSE IF IsLocked(fUseCrypto, vMasterKey)
           THEN /\ op' = OpRec("AddSpendingKey", address, "false", 0, {}, FALSE)
                /\ UNCHANGED <<fUseCrypto, mapSpendingKeys, mapCryptedSpendingKeys,
                               mapNoteDecryptors>>
           ELSE LET e == EncryptSecret(vMasterKey, SerializeSpendingKey(sk),
                                       PaymentAddress_GetHash(address))
                    r == DoAddCryptedSpendingKey(fUseCrypto, mapKeys, mapSpendingKeys,
                                                 mapCryptedSpendingKeys, mapNoteDecryptors,
                                                 address, SpendingKey_viewing_key(sk), e.ct)
                IN  IF ~e.ok
                    THEN /\ op' = OpRec("AddSpendingKey", address, "false", 0, {}, FALSE)
                         /\ UNCHANGED <<fUseCrypto, mapSpendingKeys, mapCryptedSpendingKeys,
                                        mapNoteDecryptors>>
                    ELSE /\ fUseCrypto' = r.fUseCrypto
                         /\ mapCryptedSpendingKeys' = r.mapCryptedSpendingKeys
                         /\ mapNoteDecryptors' = r.mapNoteDecryptors
                         /\ op' = OpRec("AddSpendingKey", address, Bool(r.ok), 0, {}, FALSE)
                         /\ UNCHANGED mapSpendingKeys
    /\ pre' = Snapshot
    /\ UNCHANGED <<conc, cipher>>
    /\ UNCHANGED <<vMasterKey, fDecryptionThoroughlyChecked, mapKeys, mapCryptedKeys,
                   aborted>>

\* GetSpendingKey(): the return value and skOut
DoGetSpendingKey(fUse, mk, mSK, mCSK, address) ==
    IF ~IsCrypted(fUse)
    THEN IF address \in DOMAIN mSK THEN [ok |-> TRUE, sk |-> mSK[address]]
         ELSE [ok |-> FALSE, sk |-> 0]
    ELSE IF address \in DOMAIN mCSK
         THEN DecryptSpendingKey(mk, mCSK[address], address)
         ELSE [ok |-> FALSE, sk |-> 0]

GetSpendingKey(address) ==
    /\ ~aborted
    /\ LET r == DoGetSpendingKey(fUseCrypto, vMasterKey, mapSpendingKeys,
                                 mapCryptedSpendingKeys, address)
       IN  op' = OpRec("GetSpendingKey", address, Bool(r.ok), IF r.ok THEN r.sk ELSE 0,
                       {}, FALSE)
    /\ pre' = Snapshot
    /\ UNCHANGED <<conc, cipher>>
    /\ UNCHANGED <<store, aborted>>

RECURSIVE EncryptKeysLoop(_, _, _, _, _)
\* the loop of EncryptKeys over mapKeys (fUseCrypto is already set)
EncryptKeysLoop(ids, mK, mSK, vMasterKeyIn, mCK) ==
    IF ids = << >> THEN [ok |-> TRUE, mapCryptedKeys |-> mCK]
    ELSE LET key == mK[Head(ids)]
             vchPubKey == CKey_GetPubKey(key)
             e == EncryptSecret(vMasterKeyIn, key, CPubKey_GetHash(vchPubKey))
             r == DoAddCryptedKey(TRUE, mK, mSK, mCK, vchPubKey, e.ct)
         IN  IF ~e.ok THEN [ok |-> FALSE, mapCryptedKeys |-> mCK]
             ELSE IF ~r.ok THEN [ok |-> FALSE, mapCryptedKeys |-> r.mapCryptedKeys]
             ELSE EncryptKeysLoop(Tail(ids), mK, mSK, vMasterKeyIn, r.mapCryptedKeys)

RECURSIVE EncryptSpendingKeysLoop(_, _, _, _, _, _)
\* the loop of EncryptKeys over mapSpendingKeys (mapKeys is already cleared)
EncryptSpendingKeysLoop(addrs, mK, mSK, vMasterKeyIn, mCSK, mND) ==
    IF addrs = << >>
    THEN [ok |-> TRUE, mapCryptedSpendingKeys |-> mCSK, mapNoteDecryptors |-> mND]
    ELSE LET sk == mSK[Head(addrs)]
             address == SpendingKey_address(sk)
             e == EncryptSecret(vMasterKeyIn, SerializeSpendingKey(sk),
                                PaymentAddress_GetHash(address))
             r == DoAddCryptedSpendingKey(TRUE, mK, mSK, mCSK, mND, address,
                                          SpendingKey_viewing_key(sk), e.ct)
         IN  IF ~e.ok
             THEN [ok |-> FALSE, mapCryptedSpendingKeys |-> mCSK, mapNoteDecryptors |-> mND]
             ELSE IF ~r.ok
             THEN [ok |-> FALSE, mapCryptedSpendingKeys |-> r.mapCryptedSpendingKeys,
                   mapNoteDecryptors |-> r.mapNoteDecryptors]
             ELSE EncryptSpendingKeysLoop(Tail(addrs), mK, mSK, vMasterKeyIn,
                                          r.mapCryptedSpendingKeys, r.mapNoteDecryptors)

\* mutant: the mode flag is not tested
EncryptKeysRefusesNoModeTest(s) == DOMAIN s.mapCryptedKeys # {}

\* the test EncryptKeys begins with
EncryptKeysRefuses(s) == DOMAIN s.mapCryptedKeys # {} \/ IsCrypted(s.fUseCrypto)

\* EncryptKeys(): the return value and the store it leaves
DoEncryptKeys(s, vMasterKeyIn) ==
    IF EncryptKeysRefuses(s)
    THEN [s EXCEPT !.ok = FALSE]
    ELSE LET a == EncryptKeysLoop(MapOrder(DOMAIN s.mapKeys), s.mapKeys, s.mapSpendingKeys,
                                  vMasterKeyIn, s.mapCryptedKeys)
             b == EncryptSpendingKeysLoop(MapOrder(DOMAIN s.mapSpendingKeys), EmptyMap,
                                          s.mapSpendingKeys, vMasterKeyIn,
                                          s.mapCryptedSpendingKeys, s.mapNoteDecryptors)
         IN  IF ~a.ok
             THEN [s EXCEPT !.ok = FALSE, !.fUseCrypto = TRUE,
                            !.mapCryptedKeys = a.mapCryptedKeys]
             ELSE IF ~b.ok
             THEN [s EXCEPT !.ok = FALSE, !.fUseCrypto = TRUE,
                            !.mapCryptedKeys = a.mapCryptedKeys, !.mapKeys = EmptyMap,
                            !.mapCryptedSpendingKeys = b.mapCryptedSpendingKeys,
                            !.mapNoteDecryptors = b.mapNoteDecryptors]
             ELSE [s EXCEPT !.ok = TRUE, !.fUseCrypto = TRUE,
                            !.mapCryptedKeys = a.mapCryptedKeys, !.mapKeys = EmptyMap,
                            !.mapCryptedSpendingKeys = b.mapCryptedSpendingKeys,
                            !.mapNoteDecryptors = b.mapNoteDecryptors,
                            !.mapSpendingKeys = EmptyMap]

EncryptKeys(vMasterKeyIn) ==
    /\ ~aborted
    /\ LET r == DoEncryptKeys([ok |-> FALSE] @@ Snapshot, vMasterKeyIn)
       IN  /\ fUseCrypto' = r.fUseCrypto
           /\ mapKeys' = r.mapKeys
           /\ mapSpendingKeys' = r.mapSpendingKeys
           /\ mapCryptedKeys' = r.mapCryptedKeys
           /\ mapCryptedSpendingKeys' = r.mapCryptedSpendingKeys
           /\ mapNoteDecryptors' = r.mapNoteDecryptors
           /\ op' = OpRec("EncryptKeys", vMasterKeyIn, Bool(r.ok), 0, {}, FALSE)
    /\ pre' = Snapshot
    /\ UNCHANGED <<conc, cipher>>
    /\ UNCHANGED <<vMasterKey, fDecryptionThoroughlyChecked, aborted>>

\* the store after construction
StoreInit ==
    /\ fUseCrypto = FALSE
    /\ vMasterKey = EmptyKeyingMaterial
    /\ fDecryptionThoroughlyChecked = FALSE
    /\ mapKeys = EmptyMap
    /\ mapSpendingKeys = EmptyMap
    /\ mapCryptedKeys = EmptyMap
    /\ mapCryptedSpendingKeys = EmptyMap
    /\ mapNoteDecryptors = EmptyMap
    /\ aborted = FALSE
    /\ op = OpRec("init", 0, "true", 0, {}, FALSE)
    /\ pre = Snapshot
    /\ pc = [t \in Threads |-> "idle"]
    /\ call = [t \in Threads |-> NoCall]
    /\ cs_KeyStore = 0
    /\ cs_SpendingKeyStore = 0

\* no call has been made on the CCrypter
NoCrypterCall == [name |-> "init", arg |-> 0, ret |-> "true", out |-> 0]

Init ==
    /\ StoreInit
    /\ crypter = NewCrypter
    /\ cop = NoCrypterCall
    /\ cpre = NewCrypter
    /\ fEverKeySet = FALSE

\* records a persistence replay may hand to AddCryptedKey / AddCryptedSpendingKey:
\* the secret of the identity encrypted under either 32-byte master key.
\* EncryptKeys is handed a 32-byte master key
Next ==
    \/ SetCrypted
    \/ Lock
    \/ \E k \in MasterKeyInputs : Unlock(k)
    \/ \E key \in CKeys : AddKeyPubKey(key, CKey_GetPubKey(key))
    \/ \E key \in CKeys, k \in MasterKeys :
          AddCryptedKey(CKey_GetPubKey(key),
                        EncryptSecret(k, key, CPubKey_GetHash(CKey_GetPubKey(key))).ct)
    \/ \E key \in CKeys : GetKey(CPubKey_GetID(CKey_GetPubKey(key)))
    \/ \E key \in CKeys : GetPubKey(CPubKey_GetID(CKey_GetPubKey(key)))
    \/ \E sk \in SpendingKeys : AddSpendingKey(sk)
    \/ \E sk \in SpendingKeys, k \in MasterKeys :
          AddCryptedSpendingKey(SpendingKey_address(sk), SpendingKey_viewing_key(sk),
                                EncryptSecret(k, SerializeSpendingKey(sk),
                                    PaymentAddress_GetHash(SpendingKey_address(sk))).ct)
    \/ \E sk \in SpendingKeys : GetSpendingKey(SpendingKey_address(sk))
    \/ \E k \in MasterKeys : EncryptKeys(k)

\* callers that may also hand EncryptKeys a master key of the wrong size
NextAnyKey ==
    \/ Next
    \/ \E k \in WrongSizeKeys : EncryptKeys(k)


Spec == Init /\ [][Next]_vars

SpecAnyKey == Init /\ [][NextAnyKey]_vars

\* ------------------------------------------------- calls from several threads
\* A call is a sequence of steps of its thread. LOCK(cs) is taken by a step
\* that is enabled only while no other thread holds cs; a step in between is
\* one critical section, or the code between two accesses to state that the
\* locks the thread holds do not guard.
Idle(t) == ~aborted /\ pc[t] = "idle"
At(t, label) == ~aborted /\ pc[t] = label
Free(cs, t) == cs \in {0, t}
Goto(t, label) == pc' = [pc EXCEPT ![t] = label]
Return(t) == pc' = [pc EXCEPT ![t] = "idle"] /\ call' = [call EXCEPT ![t] = NoCall]

\* SetCrypted(), lines 149-158: one critical section of cs_KeyStore
T_SetCrypted(t) ==
    /\ Idle(t)
    /\ Free(cs_KeyStore, t)
    /\ fUseCrypto' = DoSetCrypted(fUseCrypto, mapKeys, mapSpendingKeys).fUseCrypto
    /\ UNCHANGED <<vMasterKey, fDecryptionThoroughlyChecked, mapKeys, mapSpendingKeys,
                   mapCryptedKeys, mapCryptedSpendingKeys, mapNoteDecryptors, aborted,
                   seq, cipher, conc>>

\* AddKeyPubKey(), lines 227-246: one critical section of cs_KeyStore
T_AddKeyPubKey(t, key, pubkey) ==
    /\ Idle(t)
    /\ Free(cs_KeyStore, t)
    /\ IF ~IsCrypted(fUseCrypto)
       THEN /\ mapKeys' = CBasicKeyStore_AddKeyPubKey(mapKeys, key, pubkey)
            /\ UNCHANGED <<fUseCrypto, mapCryptedKeys>>
       ELSE LET e == EncryptSecret(vMasterKey, key, CPubKey_GetHash(pubkey))
                r == DoAddCryptedKey(fUseCrypto, mapKeys, mapSpendingKeys, mapCryptedKeys,
                                     pubkey, e.ct)
            IN  IF IsLocked(fUseCrypto, vMasterKey) \/ ~e.ok
                THEN UNCHANGED <<fUseCrypto, mapKeys, mapCryptedKeys>>
                ELSE /\ fUseCrypto' = r.fUseCrypto
                     /\ mapCryptedKeys' = r.mapCryptedKeys
                     /\ UNCHANGED mapKeys
    /\ UNCHANGED <<vMasterKey, fDecryptionThoroughlyChecked, mapSpendingKeys,
                   mapCryptedSpendingKeys, mapNoteDecryptors, aborted, seq, cipher, conc>>

\* Lock(), lines 162-163: SetCrypted()
T_Lock_SetCrypted(t) ==
    /\ Idle(t)
    /\ Free(cs_KeyStore, t)
    /\ LET r == DoSetCrypted(fUseCrypto, mapKeys, mapSpendingKeys)
       IN  /\ fUseCrypto' = r.fUseCrypto
           /\ IF r.ok THEN Goto(t, "Lock_clear") ELSE UNCHANGED pc
    /\ UNCHANGED <<vMasterKey, fDecryptionThoroughlyChecked, mapKeys, mapSpendingKeys,
                   mapCryptedKeys, mapCryptedSpendingKeys, mapNoteDecryptors, aborted,
                   seq, cipher, call, cs_KeyStore, cs_SpendingKeyStore>>

\* mutant: the notification is reached with cs_KeyStore still held
T_Lock_ClearHoldsLock(t) ==
    /\ At(t, "Lock_clear")
    /\ Free(cs_KeyStore, t)
    /\ vMasterKey' = EmptyKeyingMaterial
    /\ cs_KeyStore' = t
    /\ Goto(t, "Lock_notify")
    /\ UNCHANGED <<fUseCrypto, fDecryptionThoroughlyChecked, mapKeys, mapSpendingKeys,
                   mapCryptedKeys, mapCryptedSpendingKeys, mapNoteDecryptors, aborted,
                   seq, cipher, call, cs_SpendingKeyStore>>

\* Lock(), lines 165-168: the master key is cleared under cs_KeyStore
T_Lock_Clear(t) ==
    /\ At(t, "Lock_clear")
    /\ Free(cs_KeyStore, t)
    /\ vMasterKey' = EmptyKeyingMaterial
    /\ Goto(t, "Lock_notify")
    /\ UNCHANGED <<fUseCrypto, fDecryptionThoroughlyChecked, mapKeys, mapSpendingKeys,
                   mapCryptedKeys, mapCryptedSpendingKeys, mapNoteDecryptors, aborted,
                   seq, cipher, call, cs_KeyStore, cs_SpendingKeyStore>>

\* Lock(), lines 170-171, and Unlock(), lines 223-224: NotifyStatusChanged
T_Notify(t) ==
    /\ At(t, "Lock_notify") \/ At(t, "Unlock_notify")
    /\ Return(t)
    /\ UNCHANGED <<store, aborted, seq, cipher, cs_KeyStore, cs_SpendingKeyStore>>

\* Unlock(), lines 177-197: cs_KeyStore is taken, SetCrypted(), the loop over
\* mapCryptedKeys
T_Unlock_Begin(t, vMasterKeyIn) ==
    /\ Idle(t)
    /\ Free(cs_KeyStore, t)
    /\ LET r == DoSetCrypted(fUseCrypto, mapKeys, mapSpendingKeys)
           a == UnlockScanKeys(MapOrder(DOMAIN mapCryptedKeys), mapCryptedKeys,
                               vMasterKeyIn, fDecryptionThoroughlyChecked,
                               [keyPass |-> FALSE, keyFail |-> FALSE, tried |-> {}])
       IN  /\ fUseCrypto' = r.fUseCrypto
           /\ IF ~r.ok
              THEN UNCHANGED <<pc, call, cs_KeyStore>>
              ELSE /\ cs_KeyStore' = t
                   /\ call' = [call EXCEPT ![t] = [NoCall EXCEPT !.k = vMasterKeyIn,
                                                   !.keyPass = a.keyPass,
                                                   !.keyFail = a.keyFail]]
                   /\ Goto(t, "Unlock_sk")
    /\ UNCHANGED <<vMasterKey, fDecryptionThoroughlyChecked, mapKeys, mapSpendingKeys,
                   mapCryptedKeys, mapCryptedSpendingKeys, mapNoteDecryptors, aborted,
                   seq, cipher, cs_SpendingKeyStore>>

\* Unlock(), lines 198-222: the loop over mapCryptedSpendingKeys (cs_KeyStore
\* only is held), the decision, cs_KeyStore is released
T_Unlock_SpendingKeys(t) ==
    /\ At(t, "Unlock_sk")
    /\ LET b == UnlockScanSpendingKeys(
                    MapOrder(DOMAIN mapCryptedSpendingKeys), mapCryptedSpendingKeys,
                    call[t].k, fDecryptionThoroughlyChecked,
                    [keyPass |-> call[t].keyPass, keyFail |-> call[t].keyFail,
                     tried |-> {}])
           d == UnlockDecision(b.keyPass, b.keyFail)
       IN  /\ aborted' = (d = "abort")
           /\ vMasterKey' = IF d = "true" THEN call[t].k ELSE vMasterKey
           /\ fDecryptionThoroughlyChecked' =
                  IF d = "true" THEN TRUE ELSE fDecryptionThoroughlyChecked
           /\ IF d = "abort" THEN UNCHANGED <<pc, call, cs_KeyStore>>
              ELSE /\ cs_KeyStore' = 0
                   /\ IF d = "true"
                      THEN Goto(t, "Unlock_notify") /\ UNCHANGED call
                      ELSE Return(t)
    /\ UNCHANGED <<fUseCrypto, mapKeys, mapSpendingKeys, mapCryptedKeys,
                   mapCryptedSpendingKeys, mapNoteDecryptors, seq, cipher, cs_SpendingKeyStore>>

\* AddSpendingKey(), lines 299-300: cs_SpendingKeyStore is taken, IsCrypted()
T_AddSpendingKey_Begin(t, sk) ==
    /\ Idle(t)
    /\ Free(cs_SpendingKeyStore, t)
    /\ cs_SpendingKeyStore' = t
    /\ call' = [call EXCEPT ![t] = [NoCall EXCEPT !.sk = sk]]
    /\ IF ~IsCrypted(fUseCrypto)
       THEN Goto(t, "AddSpendingKey_plain")
       ELSE Goto(t, "AddSpendingKey_crypted")
    /\ UNCHANGED <<store, aborted, seq, cipher, cs_KeyStore>>

\* AddSpendingKey(), line 301: CBasicKeyStore::AddSpendingKey
T_AddSpendingKey_Plain(t) ==
    /\ At(t, "AddSpendingKey_plain")
    /\ LET b == CBasicKeyStore_AddSpendingKey(mapSpendingKeys, mapNoteDecryptors, call[t].sk)
       IN  /\ mapSpendingKeys' = b.mapSpendingKeys
           /\ mapNoteDecryptors' = b.mapNoteDecryptors
    /\ cs_SpendingKeyStore' = 0
    /\ Return(t)
    /\ UNCHANGED <<fUseCrypto, vMasterKey, fDecryptionThoroughlyChecked, mapKeys,
                   mapCryptedKeys, mapCryptedSpendingKeys, aborted, seq, cipher, cs_KeyStore>>

\* AddSpendingKey(), lines 303-312: IsLocked(), EncryptSecret under vMasterKey
T_AddSpendingKey_Crypted(t) ==
    /\ At(t, "AddSpendingKey_crypted")
    /\ LET sk == call[t].sk
           e == EncryptSecret(vMasterKey, SerializeSpendingKey(sk),
                              PaymentAddress_GetHash(SpendingKey_address(sk)))
       IN  IF IsLocked(fUseCrypto, vMasterKey) \/ ~e.ok
           THEN cs_SpendingKeyStore' = 0 /\ Return(t)
           ELSE /\ call' = [call EXCEPT ![t].ct = e.ct]
                /\ Goto(t, "AddCryptedSpendingKey_SetCrypted")
                /\ UNCHANGED cs_SpendingKeyStore
    /\ UNCHANGED <<store, aborted, seq, cipher, cs_KeyStore>>

\* AddCryptedSpendingKey(), line 325: cs_SpendingKeyStore is taken
T_AddCryptedSpendingKey_Begin(t, sk, vchCryptedSecret) ==
    /\ Idle(t)
    /\ Free(cs_SpendingKeyStore, t)
    /\ cs_SpendingKeyStore' = t
    /\ call' = [call EXCEPT ![t] = [NoCall EXCEPT !.sk = sk, !.ct = vchCryptedSecret]]
    /\ Goto(t, "AddCryptedSpendingKey_SetCrypted")
    /\ UNCHANGED <<store, aborted, seq, cipher, cs_KeyStore>>

\* AddCryptedSpendingKey(), lines 326-327: SetCrypted() takes cs_KeyStore
T_AddCryptedSpendingKey_SetCrypted(t) ==
    /\ At(t, "AddCryptedSpendingKey_SetCrypted")
    /\ Free(cs_KeyStore, t)
    /\ LET r == DoSetCrypted(fUseCrypto, mapKeys, mapSpendingKeys)
       IN  /\ fUseCrypto' = r.fUseCrypto
           /\ IF r.ok
              THEN Goto(t, "AddCryptedSpendingKey_insert")
                   /\ UNCHANGED <<call, cs_SpendingKeyStore>>
              ELSE cs_SpendingKeyStore' = 0 /\ Return(t)
    /\ UNCHANGED <<vMasterKey, fDecryptionThoroughlyChecked, mapKeys, mapSpendingKeys,
                   mapCryptedKeys, mapCryptedSpendingKeys, mapNoteDecryptors, aborted,
                   seq, cipher, cs_KeyStore>>

\* AddCryptedSpendingKey(), lines 329-332: the record and the note decryptor
T_AddCryptedSpendingKey_Insert(t) ==
    /\ At(t, "AddCryptedSpendingKey_insert")
    /\ LET address == SpendingKey_address(call[t].sk)
       IN  /\ mapCryptedSpendingKeys' = MapPut(mapCryptedSpendingKeys, address, call[t].ct)
           /\ mapNoteDecryptors' = MapInsert(mapNoteDecryptors, address,
                                             SpendingKey_viewing_key(call[t].sk))
    /\ cs_SpendingKeyStore' = 0
    /\ Return(t)
    /\ UNCHANGED <<fUseCrypto, vMasterKey, fDecryptionThoroughlyChecked, mapKeys,
                   mapSpendingKeys, mapCryptedKeys, aborted, seq, cipher, cs_KeyStore>>

\* EncryptKeys(), line 355: LOCK2 takes cs_KeyStore first
T_EncryptKeys_Begin(t, vMasterKeyIn) ==
    /\ Idle(t)
    /\ Free(cs_KeyStore, t)
    /\ cs_KeyStore' = t
    /\ call' = [call EXCEPT ![t] = [NoCall EXCEPT !.k = vMasterKeyIn]]
    /\ Goto(t, "EncryptKeys_lock2")
    /\ UNCHANGED <<store, aborted, seq, cipher, cs_SpendingKeyStore>>

\* EncryptKeys(), lines 355-359: LOCK2 takes cs_SpendingKeyStore, the test, the
\* mode flag is set
T_EncryptKeys_Lock2(t) ==
    /\ At(t, "EncryptKeys_lock2")
    /\ Free(cs_SpendingKeyStore, t)
    /\ IF EncryptKeysRefuses(Snapshot)
       THEN /\ cs_KeyStore' = 0
            /\ Return(t)
            /\ UNCHANGED <<fUseCrypto, cs_SpendingKeyStore>>
       ELSE /\ fUseCrypto' = TRUE
            /\ cs_SpendingKeyStore' = t
            /\ Goto(t, "EncryptKeys_keys")
            /\ UNCHANGED <<call, cs_KeyStore>>
    /\ UNCHANGED <<vMasterKey, fDecryptionThoroughlyChecked, mapKeys, mapSpendingKeys,
                   mapCryptedKeys, mapCryptedSpendingKeys, mapNoteDecryptors, aborted,
                   seq, cipher>>

\* mutant: mapKeys is cleared although the loop has failed
T_EncryptKeys_KeysClearsOnFailure(t) ==
    /\ At(t, "EncryptKeys_keys")
    /\ LET a == EncryptKeysLoop(MapOrder(DOMAIN mapKeys), mapKeys, mapSpendingKeys,
                                call[t].k, mapCryptedKeys)
       IN  /\ mapCryptedKeys' = a.mapCryptedKeys
           /\ mapKeys' = EmptyMap
           /\ IF a.ok
              THEN /\ Goto(t, "EncryptKeys_sks")
                   /\ UNCHANGED <<call, cs_KeyStore, cs_SpendingKeyStore>>
              ELSE /\ cs_KeyStore' = 0
                   /\ cs_SpendingKeyStore' = 0
                   /\ Return(t)
    /\ UNCHANGED <<fUseCrypto, vMasterKey, fDecryptionThoroughlyChecked, mapSpendingKeys,
                   mapCryptedSpendingKeys, mapNoteDecryptors, aborted, seq, cipher>>

\* EncryptKeys(), lines 360-371: the loop over mapKeys, mapKeys.clear()
T_EncryptKeys_Keys(t) ==
    /\ At(t, "EncryptKeys_keys")
    /\ LET a == EncryptKeysLoop(MapOrder(DOMAIN mapKeys), mapKeys, mapSpendingKeys,
                                call[t].k, mapCryptedKeys)
       IN  /\ mapCryptedKeys' = a.mapCryptedKeys
           /\ IF a.ok
              THEN /\ mapKeys' = EmptyMap
                   /\ Goto(t, "EncryptKeys_sks")
                   /\ UNCHANGED <<call, cs_KeyStore, cs_SpendingKeyStore>>
              ELSE /\ cs_KeyStore' = 0
                   /\ cs_SpendingKeyStore' = 0
                   /\ Return(t)
                   /\ UNCHANGED mapKeys
    /\ UNCHANGED <<fUseCrypto, vMasterKey, fDecryptionThoroughlyChecked, mapSpendingKeys,
                   mapCryptedSpendingKeys, mapNoteDecryptors, aborted, seq, cipher>>

\* EncryptKeys(), lines 372-387: the loop over mapSpendingKeys,
\* mapSpendingKeys.clear(), both locks are released
T_EncryptKeys_SpendingKeys(t) ==
    /\ At(t, "EncryptKeys_sks")
    /\ LET b == EncryptSpendingKeysLoop(MapOrder(DOMAIN mapSpendingKeys), mapKeys,
                                        mapSpendingKeys, call[t].k,
                                        mapCryptedSpendingKeys, mapNoteDecryptors)
       IN  /\ mapCryptedSpendingKeys' = b.mapCryptedSpendingKeys
           /\ mapNoteDecryptors' = b.mapNoteDecryptors
           /\ mapSpendingKeys' = IF b.ok THEN EmptyMap ELSE mapSpendingKeys
    /\ cs_KeyStore' = 0
    /\ cs_SpendingKeyStore' = 0
    /\ Return(t)
    /\ UNCHANGED <<fUseCrypto, vMasterKey, fDecryptionThoroughlyChecked, mapKeys,
                   mapCryptedKeys, aborted, seq, cipher>>

\* the calls of the threads: every transparent key and the first spending key,
\* master keys of either size
NextConc ==
    \E t \in Threads :
        \/ T_SetCrypted(t)
        \/ \E key \in CKeys : T_AddKeyPubKey(t, key, CKey_GetPubKey(key))
        \/ T_Lock_SetCrypted(t)
        \/ T_Lock_Clear(t)
        \/ T_Notify(t)
        \/ \E k \in MasterKeys : T_Unlock_Begin(t, k)
        \/ T_Unlock_SpendingKeys(t)
        \/ T_AddSpendingKey_Begin(t, Min(SpendingKeys))
        \/ T_AddSpendingKey_Plain(t)
        \/ T_AddSpendingKey_Crypted(t)
        \/ \E k \in MasterKeys :
              T_AddCryptedSpendingKey_Begin(t, Min(SpendingKeys),
                  EncryptSecret(k, SerializeSpendingKey(Min(SpendingKeys)),
                      PaymentAddress_GetHash(SpendingKey_address(Min(SpendingKeys)))).ct)
        \/ T_AddCryptedSpendingKey_SetCrypted(t)
        \/ T_AddCryptedSpendingKey_Insert(t)
        \/ \E k \in MasterKeyInputs : T_EncryptKeys_Begin(t, k)
        \/ T_EncryptKeys_Lock2(t)
        \/ T_EncryptKeys_Keys(t)
        \/ T_EncryptKeys_SpendingKeys(t)

SpecConc == Init /\ [][NextConc]_vars

\* ------------------------------------------------------- one CCrypter object
\* the arguments handed to SetKeyFromPassphrase
Passphrases == {1, 2}
SaltSizes == {WALLET_CRYPTO_SALT_SIZE - 1, WALLET_CRYPTO_SALT_SIZE}
Rounds == {0, 1}
DerivationMethods == {0, 1}
\* vchOtherDerivationParameters: 0 is the empty byte string, 1 and 2 encode a
\* memory limit, of which the key derivation accepts 2 only
DerivationParameters == {0, 1, 2}
MinMemLimit == 2

\* ReadCompactSize throws on an empty stream
ReadCompactSize(vchOtherDerivationParameters) ==
    [ok |-> vchOtherDerivationParameters # 0, memlimit |-> vchOtherDerivationParameters]

\* crypto_pwhash: the key and the nonce derived from the passphrase
crypto_pwhash(strKeyData, nRounds, memlimit) ==
    IF memlimit < MinMemLimit THEN [ok |-> FALSE, key |-> 0, iv |-> 0]
    ELSE [ok |-> TRUE, key |-> strKeyData, iv |-> 40 + strKeyData]

\* the values SetKey is handed, and the values chKey and chIV may hold before
\* anything is copied into them
CrypterKeys == MasterKeyInputs
CrypterIVs == {CPubKey_GetHash(CKey_GetPubKey(key)) : key \in CKeys} \cup WrongSizeIVs
UninitializedKeys == {EmptyKeyingMaterial} \cup MasterKeys
UninitializedIVs == {0, CPubKey_GetHash(CKey_GetPubKey(Min(CKeys)))}
\* the ciphertexts Decrypt is handed
Ciphertexts ==
    [key : MasterKeys, iv : {CPubKey_GetHash(CKey_GetPubKey(Min(CKeys)))}, pt : CKeys]

\* SetKeyFromPassphrase(): the return value and the object it leaves
CCrypter_SetKeyFromPassphrase(c, strKeyData, saltSize, nRounds, nDerivationMethod, vchOtherDerivationParameters) ==
    IF nRounds < 1 \/ saltSize # WALLET_CRYPTO_SALT_SIZE
    THEN [ok |-> FALSE, c |-> c]
    ELSE IF nDerivationMethod = 0
    THEN LET r == ReadCompactSize(vchOtherDerivationParameters)
             h == crypto_pwhash(strKeyData, nRounds, r.memlimit)
         IN  IF ~r.ok THEN [ok |-> FALSE, c |-> c]
             ELSE IF ~h.ok THEN [ok |-> FALSE, c |-> c]
             ELSE [ok |-> TRUE, c |-> [fKeySet |-> TRUE, chKey |-> h.key, chIV |-> h.iv]]
    ELSE [ok |-> TRUE, c |-> [c EXCEPT !.fKeySet = TRUE]]

CrypterCall(name, arg, ret, out) == [name |-> name, arg |-> arg, ret |-> ret, out |-> out]

SetKeyFromPassphrase(strKeyData, saltSize, nRounds, nDerivationMethod, vchOtherDerivationParameters) ==
    /\ LET r == CCrypter_SetKeyFromPassphrase(crypter, strKeyData, saltSize, nRounds,
                    nDerivationMethod, vchOtherDerivationParameters)
       IN  /\ crypter' = r.c
           /\ cop' = CrypterCall("SetKeyFromPassphrase",
                                 [salt |-> saltSize, rounds |-> nRounds,
                                  method |-> nDerivationMethod,
                                  params |-> vchOtherDerivationParameters],
                                 Bool(r.ok), 0)
           /\ fEverKeySet' = (fEverKeySet \/ r.ok)
    /\ cpre' = crypter
    /\ UNCHANGED <<store, aborted, seq, conc>>

SetKey(chNewKey, chNewIV) ==
    /\ LET r == CCrypter_SetKey(crypter, chNewKey, chNewIV)
       IN  /\ crypter' = r.c
           /\ cop' = CrypterCall("SetKey", [key |-> chNewKey, iv |-> chNewIV], Bool(r.ok), 0)
           /\ fEverKeySet' = (fEverKeySet \/ r.ok)
    /\ cpre' = crypter
    /\ UNCHANGED <<store, aborted, seq, conc>>

Encrypt(vchPlaintext) ==
    /\ LET r == CCrypter_Encrypt(crypter, vchPlaintext)
       IN  cop' = CrypterCall("Encrypt", vchPlaintext, Bool(r.ok), r.ct)
    /\ cpre' = crypter
    /\ UNCHANGED <<store, aborted, seq, conc, crypter, fEverKeySet>>

Decrypt(vchCiphertext) ==
    /\ LET r == CCrypter_Decrypt(crypter, vchCiphertext)
       IN  cop' = CrypterCall("Decrypt", vchCiphertext, Bool(r.ok), r.pt)
    /\ cpre' = crypter
    /\ UNCHANGED <<store, aborted, seq, conc, crypter, fEverKeySet>>

\* a CCrypter after construction: fKeySet is false, chKey and chIV hold
\* whatever the memory held
InitCrypter ==
    /\ StoreInit
    /\ crypter \in [fKeySet : {FALSE}, chKey : UninitializedKeys, chIV : UninitializedIVs]
    /\ cop = NoCrypterCall
    /\ cpre = crypter
    /\ fEverKeySet = FALSE

NextCrypter ==
    \/ \E strKeyData \in Passphrases, saltSize \in SaltSizes, nRounds \in Rounds,
          nDerivationMethod \in DerivationMethods,
          vchOtherDerivationParameters \in DerivationParameters :
          SetKeyFromPassphrase(strKeyData, saltSize, nRounds, nDerivationMethod,
                               vchOtherDerivationParameters)
    \/ \E chNewKey \in CrypterKeys, chNewIV \in CrypterIVs : SetKey(chNewKey, chNewIV)
    \/ \E vchPlaintext \in CKeys : Encrypt(vchPlaintext)
    \/ \E vchCiphertext \in Ciphertexts : Decrypt(vchCiphertext)

SpecCrypter == InitCrypter /\ [][NextCrypter]_vars

\* ================================================================== claims
\* helpers of the claims, over a snapshot s of the store
KeyIds(s) == DOMAIN s.mapCryptedKeys
SkAddrs(s) == DOMAIN s.mapCryptedSpendingKeys
HasCryptedRecord(s) == KeyIds(s) # {} \/ SkAddrs(s) # {}
PlainMapsEmpty(s) == DOMAIN s.mapKeys = {} /\ DOMAIN s.mapSpendingKeys = {}
KeyRecordDecrypts(s, id, k) ==
    DecryptKey(k, s.mapCryptedKeys[id].ct, s.mapCryptedKeys[id].pub).ok
SkRecordDecrypts(s, a, k) == DecryptSpendingKey(k, s.mapCryptedSpendingKeys[a], a).ok
SomeRecordDecrypts(s, k) ==
    \/ \E id \in KeyIds(s) : KeyRecordDecrypts(s, id, k)
    \/ \E a \in SkAddrs(s) : SkRecordDecrypts(s, a, k)
SomeRecordFails(s, k) ==
    \/ \E id \in KeyIds(s) : ~KeyRecordDecrypts(s, id, k)
    \/ \E a \in SkAddrs(s) : ~SkRecordDecrypts(s, a, k)
\* the record of transparent identity id was made from secret key under master key k
KeyRecordCreatedUnder(s, id, key, k) ==
    /\ CPubKey_GetID(CKey_GetPubKey(key)) = id
    /\ s.mapCryptedKeys[id].pub = CKey_GetPubKey(key)
    /\ s.mapCryptedKeys[id].ct.key = k
    /\ s.mapCryptedKeys[id].ct.iv = CPubKey_GetHash(CKey_GetPubKey(key))
    /\ s.mapCryptedKeys[id].ct.pt = key
\* the record of address a was made from spending key sk under master key k
SkRecordCreatedUnder(s, a, sk, k) ==
    /\ SpendingKey_address(sk) = a
    /\ s.mapCryptedSpendingKeys[a].key = k
    /\ s.mapCryptedSpendingKeys[a].iv = PaymentAddress_GetHash(a)
    /\ s.mapCryptedSpendingKeys[a].pt = SerializeSpendingKey(sk)
AllRecordsCreatedUnder(s, k) ==
    /\ \A id \in KeyIds(s) : \E key \in CKeys : KeyRecordCreatedUnder(s, id, key, k)
    /\ \A a \in SkAddrs(s) : \E sk \in SpendingKeys : SkRecordCreatedUnder(s, a, sk, k)
Locked(s) == s.fUseCrypto /\ s.vMasterKey = EmptyKeyingMaterial
MapsUnchanged ==
    /\ mapKeys = pre.mapKeys
    /\ mapSpendingKeys = pre.mapSpendingKeys
    /\ mapCryptedKeys = pre.mapCryptedKeys
    /\ mapCryptedSpendingKeys = pre.mapCryptedSpendingKeys

\* C1 (as claimed): whenever Unlock(K) is called on an encrypted store in which
\* some crypted record decrypts under K and some other does not, the call ends
\* in the fatal corruption abort, never in success or an ordinary failure.
C1_MixedUnlockAborts ==
    (/\ op.name = "Unlock"
     /\ pre.fUseCrypto
     /\ SomeRecordDecrypts(pre, op.arg)
     /\ SomeRecordFails(pre, op.arg))
    => op.ret = "abort"

\* C2: on an encrypted store with at least one crypted record, all made under
\* master key K, Unlock(K) returns true and leaves the store unlocked holding K;
\* Unlock(K') with K' # K returns false and a locked store stays locked.
C2_UnlockCorrect ==
    \A k \in MasterKeys :
        (/\ op.name = "Unlock"
         /\ pre.fUseCrypto
         /\ HasCryptedRecord(pre)
         /\ AllRecordsCreatedUnder(pre, k))
        => /\ op.arg = k => (op.ret = "true" /\ fUseCrypto /\ vMasterKey = k)
           /\ op.arg # k => /\ op.ret = "false"
                            /\ Locked(pre) => (Locked(Snapshot) /\ fUseCrypto)

\* C2 witness: an Unlock(K) of a locked store with two or more records, all made
\* under K, has returned true and the store holds K.
C2_Witness ==
    /\ op.name = "Unlock"
    /\ Locked(pre)
    /\ Cardinality(KeyIds(pre)) + Cardinality(SkAddrs(pre)) >= 2
    /\ AllRecordsCreatedUnder(pre, op.arg)
    /\ op.ret = "true"
    /\ vMasterKey = op.arg

\* the records of one kind an Unlock tries, by the amended C3: in map order, up
\* to the first that fails, and only the first once the thorough flag is set
TriedInOrder(ids, decrypts(_), thoroughlyChecked) ==
    {id \in ids : \A id2 \in ids : id2 < id => (decrypts(id2) /\ ~thoroughlyChecked)}
UnlockScans == op.name = "Unlock" /\ (pre.fUseCrypto \/ PlainMapsEmpty(pre))

\* C3 (as claimed): the flag, once set, stays set, and an Unlock called with the
\* flag set tries to decrypt every transparent and every spending record.
C3_ExhaustiveOnceChecked ==
    /\ pre.fDecryptionThoroughlyChecked => fDecryptionThoroughlyChecked
    /\ (UnlockScans /\ pre.fDecryptionThoroughlyChecked)
       => op.tried = KeyIds(pre) \cup SkAddrs(pre)

\* C3 (amended): the flag, once set, stays set and every successful Unlock sets
\* it; an Unlock called with the flag not set tries the records of each kind in
\* map order up to the first that fails to decrypt (all of them if none fails);
\* an Unlock called with the flag set tries only the first record of each kind.
C3_SpotCheckOnceChecked ==
    /\ pre.fDecryptionThoroughlyChecked => fDecryptionThoroughlyChecked
    /\ (op.name = "Unlock" /\ op.ret = "true") => fDecryptionThoroughlyChecked
    /\ UnlockScans =>
         LET keyOk(id) == KeyRecordDecrypts(pre, id, op.arg)
             skOk(a) == SkRecordDecrypts(pre, a, op.arg)
         IN  op.tried =
               TriedInOrder(KeyIds(pre), keyOk, pre.fDecryptionThoroughlyChecked)
               \cup TriedInOrder(SkAddrs(pre), skOk, pre.fDecryptionThoroughlyChecked)
    /\ (UnlockScans /\ pre.fDecryptionThoroughlyChecked)
       => /\ Cardinality(op.tried \cap KeyIds(pre)) <= 1
          /\ Cardinality(op.tried \cap SkAddrs(pre)) <= 1
    /\ (UnlockScans /\ ~pre.fDecryptionThoroughlyChecked /\ op.ret = "true")
       => op.tried = KeyIds(pre) \cup SkAddrs(pre)

\* C3 witness: with the flag set and two records of each kind, a successful
\* Unlock has tried one transparent and one spending record only.
C3_Witness ==
    /\ op.name = "Unlock"
    /\ pre.fDecryptionThoroughlyChecked
    /\ Cardinality(KeyIds(pre)) >= 2
    /\ Cardinality(SkAddrs(pre)) >= 2
    /\ op.ret = "true"
    /\ Cardinality(op.tried) = 2

\* C4 (as claimed): Unlock called on a Plain store returns false and leaves the
\* mode flag, the master key and all four maps unchanged.
C4_UnlockPlainNoOp ==
    (op.name = "Unlock" /\ ~pre.fUseCrypto)
    => /\ op.ret = "false"
       /\ fUseCrypto = pre.fUseCrypto
       /\ vMasterKey = pre.vMasterKey
       /\ MapsUnchanged

\* C4 (amended): Unlock called on a Plain store returns false and leaves the
\* master key and all four maps unchanged; it leaves the mode flag unchanged
\* when a plaintext map is non-empty, and sets it (the store becomes
\* EncryptedLocked) when both plaintext maps are empty.
C4_UnlockPlainFails ==
    (op.name = "Unlock" /\ ~pre.fUseCrypto)
    => /\ op.ret = "false"
       /\ vMasterKey = pre.vMasterKey
       /\ vMasterKey = EmptyKeyingMaterial
       /\ MapsUnchanged
       /\ fUseCrypto = PlainMapsEmpty(pre)

\* C4 witness: an Unlock of a Plain store with a plaintext key has returned
\* false and the store is still Plain.
C4_Witness ==
    /\ op.name = "Unlock"
    /\ ~pre.fUseCrypto
    /\ DOMAIN pre.mapKeys # {}
    /\ op.ret = "false"
    /\ ~fUseCrypto

\* C5: SetCrypted returns true and changes nothing on an encrypted store; on a
\* Plain store with both plaintext maps empty it returns true and sets the mode
\* flag, with no master key; on a Plain store with a plaintext entry it returns
\* false and changes nothing. An Unlock of an encrypted store that has no
\* crypted record returns false, whatever the key.
C5_SetCrypted ==
    /\ op.name = "SetCrypted" =>
         /\ pre.fUseCrypto => (op.ret = "true" /\ Snapshot = pre)
         /\ (~pre.fUseCrypto /\ PlainMapsEmpty(pre))
            => /\ op.ret = "true"
               /\ fUseCrypto
               /\ vMasterKey = EmptyKeyingMaterial
               /\ Snapshot = [pre EXCEPT !.fUseCrypto = TRUE]
         /\ (~pre.fUseCrypto /\ ~PlainMapsEmpty(pre))
            => (op.ret = "false" /\ Snapshot = pre)
    /\ (op.name = "Unlock" /\ pre.fUseCrypto /\ ~HasCryptedRecord(pre))
       => (op.ret = "false" /\ Snapshot = pre)

\* C5 witness: SetCrypted has refused a Plain store that holds a plaintext
\* spending key.
C5_Witness ==
    /\ op.name = "SetCrypted"
    /\ ~pre.fUseCrypto
    /\ DOMAIN pre.mapSpendingKeys # {}
    /\ op.ret = "false"
    /\ ~fUseCrypto

\* C6: the mode flag, once set, is never reset; in encrypted mode no call adds
\* to a plaintext map, AddKeyPubKey and AddSpendingKey included; and EncryptKeys
\* on a store in encrypted mode returns false and changes nothing.
C6_ModeMonotonic ==
    /\ pre.fUseCrypto => fUseCrypto
    /\ pre.fUseCrypto
       => /\ DOMAIN mapKeys \subseteq DOMAIN pre.mapKeys
          /\ DOMAIN mapSpendingKeys \subseteq DOMAIN pre.mapSpendingKeys
    /\ (op.name = "EncryptKeys" /\ pre.fUseCrypto)
       => (op.ret = "false" /\ Snapshot = pre)

\* C6 witness: a second EncryptKeys, on a store a first one has migrated, has
\* returned false.
C6_Witness ==
    /\ op.name = "EncryptKeys"
    /\ pre.fUseCrypto
    /\ HasCryptedRecord(pre)
    /\ op.ret = "false"

\* C7 (as claimed): in encrypted mode, with no EncryptKeys call in progress,
\* both plaintext maps are empty.
EncryptKeysInProgress ==
    \E t \in Threads : pc[t] \in {"EncryptKeys_lock2", "EncryptKeys_keys", "EncryptKeys_sks"}
C7_PlainEmptyWhenEncrypted ==
    (fUseCrypto /\ ~EncryptKeysInProgress)
    => (DOMAIN mapKeys = {} /\ DOMAIN mapSpendingKeys = {})

\* C8: Lock on a store in encrypted mode returns true and leaves no master key;
\* while no master key is held, GetKey and GetSpendingKey return false and no
\* secret for every identity that has a crypted record; and only an Unlock that
\* returns true ends that state.
C8_LockHidesSecrets ==
    /\ (op.name = "Lock" /\ pre.fUseCrypto)
       => (op.ret = "true" /\ Locked(Snapshot))
    /\ (op.name = "GetKey" /\ Locked(pre) /\ op.arg \in KeyIds(pre))
       => (op.ret = "false" /\ op.out = 0)
    /\ (op.name = "GetSpendingKey" /\ Locked(pre) /\ op.arg \in SkAddrs(pre))
       => (op.ret = "false" /\ op.out = 0)
    /\ (Locked(pre) /\ ~Locked(Snapshot))
       => (op.name = "Unlock" /\ op.ret = "true")

\* C8 witness: after an Unlock and a Lock (the thorough flag is set, no key is
\* held), GetKey of an identity with a crypted record has returned false.
C8_Witness ==
    /\ op.name = "GetKey"
    /\ Locked(pre)
    /\ pre.fDecryptionThoroughlyChecked
    /\ op.arg \in KeyIds(pre)
    /\ op.ret = "false"

\* C9: EncryptKeys(K) with a 32-byte K that returns true leaves the plaintext
\* maps empty, no master key held, and for every plaintext key A a crypted
\* record made from A's secret under K; GetKey of an identity whose record was
\* made from secret A under K returns false while no master key is held and
\* returns exactly A while K is held; Unlock(K) of a store whose records were
\* all made under K returns true; Lock and Unlock leave every crypted record
\* as it was.
C9_RoundTrip ==
    /\ (op.name = "EncryptKeys" /\ op.ret = "true" /\ op.arg \in MasterKeys)
       => /\ PlainMapsEmpty(Snapshot)
          /\ Locked(Snapshot)
          /\ \A id \in DOMAIN pre.mapKeys :
                /\ id \in KeyIds(Snapshot)
                /\ KeyRecordCreatedUnder(Snapshot, id, pre.mapKeys[id], op.arg)
                /\ ~DoGetKey(fUseCrypto, vMasterKey, mapKeys, mapCryptedKeys, id).ok
    /\ \A key \in CKeys, k \in MasterKeys :
          (/\ op.name = "GetKey"
           /\ pre.fUseCrypto
           /\ op.arg \in KeyIds(pre)
           /\ KeyRecordCreatedUnder(pre, op.arg, key, k))
          => /\ Locked(pre) => (op.ret = "false" /\ op.out = 0)
             /\ pre.vMasterKey = k => (op.ret = "true" /\ op.out = key)
    /\ (/\ op.name = "Unlock"
        /\ pre.fUseCrypto
        /\ HasCryptedRecord(pre)
        /\ AllRecordsCreatedUnder(pre, op.arg))
       => (op.ret = "true" /\ vMasterKey = op.arg)
    /\ op.name \in {"Lock", "Unlock", "GetKey"}
       => /\ mapCryptedKeys = pre.mapCryptedKeys
          /\ mapCryptedSpendingKeys = pre.mapCryptedSpendingKeys

\* C9 witness: GetKey of a store unlocked under K, with no plaintext key left,
\* has returned the secret the crypted record was made from.
C9_Witness ==
    /\ op.name = "GetKey"
    /\ pre.fUseCrypto
    /\ PlainMapsEmpty(pre)
    /\ pre.vMasterKey \in MasterKeys
    /\ op.arg \in KeyIds(pre)
    /\ op.ret = "true"
    /\ KeyRecordCreatedUnder(pre, op.arg, op.out, pre.vMasterKey)

\* C10: in encrypted mode with no master key held, AddKeyPubKey and
\* AddSpendingKey return false and change nothing (crypted maps, plaintext maps
\* and note decryptors included); AddCryptedKey and AddCryptedSpendingKey return
\* true, store the given record as given under the given identity, leave every
\* other record as it was, and leave the store without a master key.
C10_LockedAdds ==
    /\ (op.name \in {"AddKeyPubKey", "AddSpendingKey"} /\ Locked(pre))
       => (op.ret = "false" /\ Snapshot = pre)
    /\ (op.name = "AddCryptedKey" /\ Locked(pre))
       => /\ op.ret = "true"
          /\ op.arg \in KeyIds(Snapshot)
          /\ mapCryptedKeys[op.arg].ct = op.out
          /\ \A id \in KeyIds(pre) \ {op.arg} : mapCryptedKeys[id] = pre.mapCryptedKeys[id]
          /\ KeyIds(Snapshot) = KeyIds(pre) \cup {op.arg}
          /\ mapCryptedSpendingKeys = pre.mapCryptedSpendingKeys
          /\ Locked(Snapshot)
    /\ (op.name = "AddCryptedSpendingKey" /\ Locked(pre))
       => /\ op.ret = "true"
          /\ op.arg \in SkAddrs(Snapshot)
          /\ mapCryptedSpendingKeys[op.arg] = op.out
          /\ \A a \in SkAddrs(pre) \ {op.arg} :
                mapCryptedSpendingKeys[a] = pre.mapCryptedSpendingKeys[a]
          /\ SkAddrs(Snapshot) = SkAddrs(pre) \cup {op.arg}
          /\ mapCryptedKeys = pre.mapCryptedKeys
          /\ Locked(Snapshot)

\* C10 witness: on a locked store, AddCryptedKey has replaced the record of an
\* identity by a record made under another master key, and no key is held.
C10_Witness ==
    /\ op.name = "AddCryptedKey"
    /\ Locked(pre)
    /\ op.arg \in KeyIds(pre)
    /\ pre.mapCryptedKeys[op.arg].ct # op.out
    /\ op.ret = "true"
    /\ mapCryptedKeys[op.arg].ct = op.out
    /\ Locked(Snapshot)

\* C11: GetPubKey of a transparent identity that has a crypted record returns
\* true and the public key stored in that record, whether a master key is held
\* or not, and changes neither the mode flag, the master key nor any map.
C11_GetPubKeyAnyLockState ==
    /\ (op.name = "GetPubKey" /\ pre.fUseCrypto /\ op.arg \in KeyIds(pre))
       => /\ op.ret = "true"
          /\ op.out = pre.mapCryptedKeys[op.arg].pub
          /\ CPubKey_GetID(op.out) = op.arg
    /\ op.name = "GetPubKey" => Snapshot = pre
    /\ KeyIds(Snapshot) # {} => fUseCrypto

\* C11 witness: on a store locked after an Unlock, GetPubKey has returned the
\* public key of a crypted record.
C11_Witness ==
    /\ op.name = "GetPubKey"
    /\ Locked(pre)
    /\ pre.fDecryptionThoroughlyChecked
    /\ op.arg \in KeyIds(pre)
    /\ op.ret = "true"
    /\ op.out = pre.mapCryptedKeys[op.arg].pub

\* GetPubKey has also answered on a store that holds a master key
C11_WitnessUnlocked ==
    /\ op.name = "GetPubKey"
    /\ pre.fUseCrypto
    /\ pre.vMasterKey \in MasterKeys
    /\ op.arg \in KeyIds(pre)
    /\ op.ret = "true"

\* C12 (as claimed): every call that takes the store from Plain to encrypted
\* mode (SetCrypted on an empty store, EncryptKeys, or Lock, Unlock and the
\* AddCrypted calls through SetCrypted), every Unlock that returns true and
\* every Lock that returns true calls NotifyStatusChanged.
C12_NotifyOnEveryTransition ==
    /\ (~pre.fUseCrypto /\ fUseCrypto) => op.notified
    /\ (op.name = "Unlock" /\ op.ret = "true") => op.notified
    /\ (op.name = "Lock" /\ op.ret = "true") => op.notified

\* the positions at which a thread is about to call NotifyStatusChanged
NotifyLabels == {"Lock_notify", "Unlock_notify"}
HoldsNoLock(t) == cs_KeyStore # t /\ cs_SpendingKeyStore # t

\* C13: a thread of Lock or Unlock that is about to call NotifyStatusChanged
\* holds neither store lock; the step that takes a Lock there has cleared the
\* master key; the step that takes an Unlock there has adopted the given key,
\* which decrypts a record of the store, and has set the thorough flag; an
\* Unlock that returns false returns without passing the notification and
\* leaves the master key as it was.
C13_NotifyOutsideLocks ==
    [][\A t \in Threads :
          /\ pc'[t] \in NotifyLabels
             => (cs_KeyStore' # t /\ cs_SpendingKeyStore' # t)
          /\ (pc[t] # "Lock_notify" /\ pc'[t] = "Lock_notify")
             => (pc[t] = "Lock_clear" /\ vMasterKey' = EmptyKeyingMaterial /\ fUseCrypto')
          /\ (pc[t] # "Unlock_notify" /\ pc'[t] = "Unlock_notify")
             => /\ pc[t] = "Unlock_sk"
                /\ vMasterKey' = call[t].k
                /\ fDecryptionThoroughlyChecked'
                /\ SomeRecordDecrypts(Snapshot, call[t].k)
          /\ (pc[t] = "Unlock_sk" /\ pc'[t] = "idle")
             => (vMasterKey' = vMasterKey /\ ~aborted')
    ]_vars

\* C13 witness: a thread is about to notify for an Unlock that adopted a key,
\* while the other thread is inside Unlock and holds cs_KeyStore.
C13_Witness ==
    \E t \in Threads, u \in Threads :
        /\ t # u
        /\ pc[t] = "Unlock_notify"
        /\ HoldsNoLock(t)
        /\ pc[u] = "Unlock_sk"
        /\ cs_KeyStore = u

\* a thread that holds one store lock and is at the step that takes the other
TakesKeyStoreHoldingSpendingKeyStore(t) ==
    pc[t] = "AddCryptedSpendingKey_SetCrypted" /\ cs_SpendingKeyStore = t
TakesSpendingKeyStoreHoldingKeyStore(t) ==
    pc[t] = "EncryptKeys_lock2" /\ cs_KeyStore = t
\* a thread at a step that takes a lock another thread holds
Blocked(t) ==
    \/ pc[t] \in {"AddCryptedSpendingKey_SetCrypted", "Lock_clear"}
       /\ cs_KeyStore \notin {0, t}
    \/ pc[t] = "EncryptKeys_lock2" /\ cs_SpendingKeyStore \notin {0, t}

\* C14 (as claimed): the two store locks are taken in one order by every call
\* (no call takes cs_KeyStore while it holds cs_SpendingKeyStore when another
\* takes them the other way round), and the threads are never all blocked on
\* locks held by one another.
C14_NoDeadlock ==
    /\ ~(\E t \in Threads, u \in Threads :
            /\ TakesKeyStoreHoldingSpendingKeyStore(t)
            /\ TakesSpendingKeyStoreHoldingKeyStore(u))
    /\ ~(\A t \in Threads : Blocked(t))

\* C15 (as claimed): a thread inside Unlock's evaluation of the crypted records
\* holds cs_KeyStore and cs_SpendingKeyStore; a thread about to read the mode
\* flag and the master key holds cs_KeyStore; and no thread is about to insert
\* a crypted spending record while another is evaluating the crypted spending
\* records in Unlock.
C15_GuardedAccess ==
    /\ \A t \in Threads :
          pc[t] = "Unlock_sk" => (cs_KeyStore = t /\ cs_SpendingKeyStore = t)
    /\ \A t \in Threads :
          pc[t] = "AddSpendingKey_crypted" => cs_KeyStore = t
    /\ ~(\E t \in Threads, u \in Threads :
            pc[t] = "Unlock_sk" /\ pc[u] = "AddCryptedSpendingKey_insert")

\* C16 (as claimed): SetKeyFromPassphrase with nRounds >= 1, a salt of the
\* fixed size and a derivation method other than 0 returns false and leaves
\* fKeySet as it was, so that Encrypt and Decrypt on a new CCrypter still fail.
C16_UnsupportedMethodFails ==
    (/\ cop.name = "SetKeyFromPassphrase"
     /\ cop.arg.rounds >= 1
     /\ cop.arg.salt = WALLET_CRYPTO_SALT_SIZE
     /\ cop.arg.method # 0)
    => (cop.ret = "false" /\ crypter.fKeySet = cpre.fKeySet)

\* C17: Encrypt and Decrypt return false on a CCrypter on which no SetKey and no
\* SetKeyFromPassphrase has returned true, and such a CCrypter is not ready;
\* SetKey with a key or a nonce that is not WALLET_CRYPTO_KEY_SIZE bytes returns
\* false and leaves fKeySet, chKey and chIV as they were; SetKeyFromPassphrase
\* with nRounds < 1 or a salt that is not WALLET_CRYPTO_SALT_SIZE bytes returns
\* false and leaves the object as it was.
C17_CipherReadiness ==
    /\ ~fEverKeySet => ~crypter.fKeySet
    /\ (cop.name \in {"Encrypt", "Decrypt"} /\ ~fEverKeySet) => cop.ret = "false"
    /\ (/\ cop.name = "SetKey"
        /\ \/ KeyingMaterialSize(cop.arg.key) # WALLET_CRYPTO_KEY_SIZE
           \/ IVSize(cop.arg.iv) # WALLET_CRYPTO_KEY_SIZE)
       => (cop.ret = "false" /\ crypter = cpre)
    /\ (/\ cop.name = "SetKeyFromPassphrase"
        /\ (cop.arg.rounds < 1 \/ cop.arg.salt # WALLET_CRYPTO_SALT_SIZE))
       => (cop.ret = "false" /\ crypter = cpre)

\* C17 witness: on a CCrypter that holds a key, SetKey with a 32-byte key and a
\* nonce of another size has returned false and the key and nonce are kept.
C17_Witness ==
    /\ cop.name = "SetKey"
    /\ cpre.fKeySet
    /\ cpre.chKey \in MasterKeys
    /\ cop.arg.key \in MasterKeys
    /\ cop.arg.key # cpre.chKey
    /\ cop.arg.iv \in WrongSizeIVs
    /\ cop.ret = "false"
    /\ crypter = cpre

\* Encrypt has also been refused on a CCrypter no call has keyed
C17_WitnessNotReady ==
    /\ cop.name = "Encrypt"
    /\ ~fEverKeySet
    /\ cop.ret = "false"

\* C18 (as claimed): whenever the store is in encrypted mode and holds a master
\* key, every crypted transparent record and every crypted spending record
\* decrypts under that key.
C18_HeldKeyExplainsAll ==
    (fUseCrypto /\ vMasterKey # EmptyKeyingMaterial)
    => ~SomeRecordFails(Snapshot, vMasterKey)

\* the threads inside EncryptKeys, past its test of the mode
InEncryptKeys(t) == pc[t] \in {"EncryptKeys_keys", "EncryptKeys_sks"}

\* C19: no step of any call loses a key, the steps of an EncryptKeys that fails
\* included: an identity of a plaintext map is, after the step, still in that
\* map or in the crypted map of its kind, and no crypted record is removed. A
\* step of EncryptKeys(K) that takes an identity out of a plaintext map leaves
\* for it a crypted record made from its secret under K, and empties the map
\* only if that holds for every identity of the map.
C19_EncryptKeysLosesNoKey ==
    [][/\ \A id \in DOMAIN mapKeys :
             id \in DOMAIN mapKeys' \cup DOMAIN mapCryptedKeys'
       /\ \A a \in DOMAIN mapSpendingKeys :
             a \in DOMAIN mapSpendingKeys' \cup DOMAIN mapCryptedSpendingKeys'
       /\ DOMAIN mapCryptedKeys \subseteq DOMAIN mapCryptedKeys'
       /\ DOMAIN mapCryptedSpendingKeys \subseteq DOMAIN mapCryptedSpendingKeys'
       /\ \A t \in Threads :
             InEncryptKeys(t) =>
                /\ \A id \in DOMAIN mapKeys \ DOMAIN mapKeys' :
                      /\ DOMAIN mapKeys' = {}
                      /\ \A id2 \in DOMAIN mapKeys :
                            /\ id2 \in DOMAIN mapCryptedKeys'
                            /\ mapCryptedKeys'[id2].pub = CKey_GetPubKey(mapKeys[id2])
                            /\ mapCryptedKeys'[id2].ct =
                                  [key |-> call[t].k,
                                   iv |-> CPubKey_GetHash(CKey_GetPubKey(mapKeys[id2])),
                                   pt |-> mapKeys[id2]]
                /\ \A a \in DOMAIN mapSpendingKeys \ DOMAIN mapSpendingKeys' :
                      /\ DOMAIN mapSpendingKeys' = {}
                      /\ \A a2 \in DOMAIN mapSpendingKeys :
                            /\ a2 \in DOMAIN mapCryptedSpendingKeys'
                            /\ mapCryptedSpendingKeys'[a2] =
                                  [key |-> call[t].k,
                                   iv |-> PaymentAddress_GetHash(a2),
                                   pt |-> SerializeSpendingKey(mapSpendingKeys[a2])]
      ]_vars

\* C19 witness: inside an EncryptKeys, between its two loops: the transparent
\* keys are migrated and mapKeys is cleared, the plaintext spending key is still
\* in its map and has no crypted record yet.
C19_Witness ==
    \E t \in Threads :
        /\ pc[t] = "EncryptKeys_sks"
        /\ call[t].k \in MasterKeys
        /\ DOMAIN mapKeys = {}
        /\ Cardinality(DOMAIN mapCryptedKeys) >= 2
        /\ DOMAIN mapSpendingKeys # {}
        /\ DOMAIN mapCryptedSpendingKeys = {}

\* an EncryptKeys has also returned false at its first key: the mode flag is
\* set, nothing is migrated and every plaintext key is still in its map
C19_WitnessFailed ==
    /\ fUseCrypto
    /\ ~EncryptKeysInProgress
    /\ Cardinality(DOMAIN mapKeys) >= 2
    /\ DOMAIN mapCryptedKeys = {}

\* C20: an Unlock that returns false on a store already in encrypted mode leaves
\* the mode flag, the master key (held or not), the thorough flag and every map
\* as they were; a store unlocked under K is still unlocked under K after
\* Unlock(K') has returned false.
C20_FailedUnlockChangesNothing ==
    (op.name = "Unlock" /\ pre.fUseCrypto /\ op.ret = "false")
    => /\ Snapshot = pre
       /\ ~op.notified
       /\ ~aborted

\* C20 witness: on a store unlocked under K whose records were all made under
\* K, Unlock(K') with another 32-byte key has returned false and K is still held.
C20_Witness ==
    /\ op.name = "Unlock"
    /\ pre.fUseCrypto
    /\ pre.vMasterKey \in MasterKeys
    /\ HasCryptedRecord(pre)
    /\ AllRecordsCreatedUnder(pre, pre.vMasterKey)
    /\ op.arg \in MasterKeys \ {pre.vMasterKey}
    /\ op.ret = "false"
    /\ vMasterKey = pre.vMasterKey
====
